---- MODULE Spec2Model ----
(***************************************************************************)
(* ChatGateway (src/unnamed/part_001): the presence registry               *)
(* (connectedUsers), the active-chat tracker (userActiveChats), the call   *)
(* table (activeCalls), the durable store behind prisma (calls, messages)  *)
(* and the socket.io server's set of connected sockets.                    *)
(*                                                                         *)
(* Every handler is one action per synchronous stretch of its code: an     *)
(* async handler is cut at each `await`, and the part in flight is a task  *)
(* holding the handler's local variables.  A durable-store call is applied *)
(* in the step that resumes the handler awaiting it, and may be rejected   *)
(* by the store (ok = FALSE), which takes the handler's catch branch.      *)
(***************************************************************************)
EXTENDS Integers, Sequences, FiniteSets, Bags, TLC

\* ---------------------------------------------------------------- bounds
MaxEvents == 5       \* inbound events of a run: attaches, disconnects, client events
MaxTasks == 2        \* handlers suspended at an await at one time
MaxMsgEvents == 4    \* message events are taken among the first MaxMsgEvents events
TickMs == 1500       \* the clock advances by 1.5 s, so flooring to seconds shows

\* ------------------------------------------------------- program constants
MsPerSecond == 1000  \* divisor of the duration computation

Users == {"A", "B"}
CallTypes == {"video"}
NoUser == "none"
NoSocket == 0
NoTime == -1

VARIABLES
    sockUser,         \* socket id -> payload.sub of its handshake token
    connected,        \* server.sockets.sockets: the sockets the transport holds open
    connectedUsers,   \* userId -> socketId (NoSocket: no entry)
    userActiveChats,  \* userId -> activeReceiverId (NoUser: no entry)
    activeCalls,      \* callId -> call info, in the Map's insertion order
    timers,           \* pending setTimeout callbacks of handleDisconnect
    tasks,            \* handlers suspended at an await (a bag of their locals)
    dbCalls,          \* prisma.call: the durable call records, by id
    dbMessages,       \* prisma.message: the durable message records (a bag)
    now,              \* Date.now(), in ms
    emits,            \* the events the last step emitted, in order
    last,             \* the last step taken: handler, stretch, client and arguments
    endedSent,        \* how often call_ended for a call reached a connected socket
    events            \* inbound events so far

vars == <<sockUser, connected, connectedUsers, userActiveChats, activeCalls, timers,
          tasks, dbCalls, dbMessages, now, emits, last, endedSent, events>>

\* Socket ids are handed out in order, one per attach.
Sockets == 1..MaxEvents

\* ------------------------------------------------------------ call objects
NoCall ==
    [id |-> 0, callerId |-> NoUser, receiverId |-> NoUser, callerSocketId |-> NoSocket,
     receiverSocketId |-> NoSocket, status |-> "none", type |-> "none", createdAt |-> NoTime]

HasIn(calls, cid) == \E i \in 1..Len(calls) : calls[i].id = cid
IndexIn(calls, cid) == CHOOSE i \in 1..Len(calls) : calls[i].id = cid
GetIn(calls, cid) == IF HasIn(calls, cid) THEN calls[IndexIn(calls, cid)] ELSE NoCall

\* Map.prototype.set: an existing key keeps its place, a new key goes last.
MapSet(calls, rec) ==
    IF HasIn(calls, rec.id)
    THEN [calls EXCEPT ![IndexIn(calls, rec.id)] = rec]
    ELSE Append(calls, rec)

\* Map.prototype.delete
MapDelete(calls, cid) == SelectSeq(calls, LAMBDA c : c.id # cid)

\* ------------------------------------------------------------------ tasks
NoTask ==
    [h |-> "none", pc |-> "none", client |-> NoSocket, user |-> NoUser, peer |-> NoUser,
     callId |-> 0, rsock |-> NoSocket, alias |-> FALSE, call |-> NoCall, pos |-> 0,
     type |-> "none", at |-> NoTime, dur |-> 0, n |-> 0, written |-> FALSE]

NoStep ==
    [h |-> "none", pc |-> "none", client |-> NoSocket, user |-> NoUser, peer |-> NoUser,
     callId |-> 0, ok |-> TRUE]

Step(h, pc, client, user, peer, callId, ok) ==
    [h |-> h, pc |-> pc, client |-> client, user |-> user, peer |-> peer,
     callId |-> callId, ok |-> ok]

TaskSet == BagToSet(tasks)
InFlight == BagCardinality(tasks)
Spawn(ts, t) == ts (+) SetToBag({t})
Retire(ts, t) == ts (-) SetToBag({t})

RECURSIVE SumCopies(_, _)
SumCopies(S, B) ==
    IF S = {} THEN 0
    ELSE LET t == CHOOSE x \in S : TRUE
         IN  B[t] + SumCopies(S \ {t}, B)

\* The bag B with each task t replaced by f[t].
ReKey(B, f) ==
    LET S == BagToSet(B)
    IN  [u \in {f[t] : t \in S} |-> SumCopies({t \in S : f[t] = u}, B)]

\* The handler's local `call`: the object it read from the Map.  While that
\* object is still the Map's entry (alias) the handler sees the in-place writes
\* of updateUserSocketInActiveCalls; once the entry is replaced or deleted the
\* object keeps the fields it had then.
Local(t) == IF t.alias THEN GetIn(activeCalls, t.callId) ELSE t.call

DetachTask(t, calls, cid) ==
    IF t.alias /\ t.callId = cid
    THEN [t EXCEPT !.alias = FALSE, !.call = GetIn(calls, cid)]
    ELSE t

\* A Map iterator holds its place among the entries: deleting an entry at or
\* before that place moves the place back by one.
ShiftTask(t, idx) ==
    IF t.h = "disconnect" /\ idx <= t.pos THEN [t EXCEPT !.pos = @ - 1] ELSE t

TasksOnDelete(ts, calls, cid) ==
    IF HasIn(calls, cid)
    THEN ReKey(ts, [t \in BagToSet(ts) |->
                      ShiftTask(DetachTask(t, calls, cid), IndexIn(calls, cid))])
    ELSE ts

TasksOnReplace(ts, calls, cid) ==
    IF HasIn(calls, cid)
    THEN ReKey(ts, [t \in BagToSet(ts) |-> DetachTask(t, calls, cid)])
    ELSE ts

\* ------------------------------------------------------------------ emits
NoCounts == <<>>

Emit(to, ev, callId, user, peer, info, counts) ==
    [to |-> to, ev |-> ev, callId |-> callId, user |-> user, peer |-> peer,
     info |-> info, counts |-> counts]

CallEmit(to, ev, callId) == Emit(to, ev, callId, NoUser, NoUser, "", NoCounts)
\* (mutant) the failure notice goes out to no session.
FailEmit_ToNobody(to, ev, info) == Emit(NoSocket, ev, 0, NoUser, NoUser, info, NoCounts)

\* client.emit('call_failed', {...}) and client.emit('error', {...})
FailEmit(to, ev, info) == Emit(to, ev, 0, NoUser, NoUser, info, NoCounts)

isSocketConnected(socketId) == socketId \in connected

\* The call_ended events of a step that reach a connected socket, counted per
\* call and socket.
CountEnded(sent, es) ==
    LET hits == SelectSeq(es, LAMBDA e : e.ev = "call_ended" /\ e.to \in connected)
    IN  sent (+) [p \in {<<hits[i].callId, hits[i].to>> : i \in 1..Len(hits)} |->
                    Cardinality({i \in 1..Len(hits) : <<hits[i].callId, hits[i].to>> = p})]

\* ------------------------------------------------------------------- Init
Init ==
    /\ sockUser = <<>>
    /\ connected = {}
    /\ connectedUsers = [u \in Users |-> NoSocket]
    /\ userActiveChats = [u \in Users |-> NoUser]
    /\ activeCalls = <<>>
    /\ timers = {}
    /\ tasks = EmptyBag
    /\ dbCalls = <<>>
    /\ dbMessages = EmptyBag
    /\ now = 0
    /\ emits = <<>>
    /\ last = NoStep
    /\ endedSent = EmptyBag
    /\ events = 0

\* ------------------------------------------------------- presence registry
updateUserSocketInActiveCalls(calls, userId, newSocketId) ==
    [i \in 1..Len(calls) |->
        IF calls[i].callerId = userId
        THEN [calls[i] EXCEPT !.callerSocketId = newSocketId]
        ELSE IF calls[i].receiverId = userId
             THEN [calls[i] EXCEPT !.receiverSocketId = newSocketId]
             ELSE calls[i]]

\* (mutant) a binding that is there is kept: the first writer wins.
Bind_KeepOld(registry, userId, socketId) ==
    IF registry[userId] = NoSocket THEN [registry EXCEPT ![userId] = socketId] ELSE registry

\* this.connectedUsers.set(userId, client.id)
Bind(registry, userId, socketId) == [registry EXCEPT ![userId] = socketId]

\* handleConnection up to `await this.sendUnreadCounts(userId)`: the token
\* verifies, the binding is overwritten and the user's calls are re-pointed.
HandleConnection(userId) ==
    LET s == Len(sockUser) + 1 IN
    /\ InFlight < MaxTasks
    /\ events < MaxEvents
    /\ events' = events + 1
    /\ sockUser' = Append(sockUser, userId)
    /\ connected' = connected \cup {s}
    /\ connectedUsers' = Bind(connectedUsers, userId, s)
    /\ activeCalls' = updateUserSocketInActiveCalls(activeCalls, userId, s)
    /\ tasks' = Spawn(tasks, [NoTask EXCEPT !.h = "connect", !.pc = "unread",
                                            !.client = s, !.user = userId])
    /\ emits' = <<>>
    /\ last' = Step("connect", "bind", s, userId, NoUser, 0, TRUE)
    /\ UNCHANGED <<userActiveChats, timers, dbCalls, dbMessages, now, endedSent>>

\* (When jwtService.verify throws, handleConnection only calls
\* client.disconnect(): no state of the gateway changes, and the
\* handleDisconnect that follows finds no binding for that socket.)

\* The timers handleDisconnect schedules for a closing socket: one for the
\* first user bound to it, none when no binding points at it.
ScheduleTeardown(registry, socketId) ==
    LET bound == {u \in Users : registry[u] = socketId}
    IN  IF bound = {} THEN {}
        ELSE {[user |-> CHOOSE u \in bound : TRUE, sock |-> socketId]}

HandleDisconnect(s) ==
    /\ s \in connected
    /\ events < MaxEvents
    /\ events' = events + 1
    /\ connected' = connected \ {s}
    /\ timers' = timers \cup ScheduleTeardown(connectedUsers, s)
    /\ emits' = <<>>
    /\ last' = Step("disconnect", "schedule", s, sockUser[s], NoUser, 0, TRUE)
    /\ UNCHANGED <<sockUser, connectedUsers, userActiveChats, activeCalls, tasks,
                   dbCalls, dbMessages, now, endedSent>>

\* --------------------------------------------------------------- the clock
Tick ==
    /\ events < MaxEvents
    /\ events' = events + 1
    /\ now' = now + TickMs
    /\ emits' = <<>>
    /\ last' = Step("tick", "tick", NoSocket, NoUser, NoUser, 0, TRUE)
    /\ UNCHANGED <<sockUser, connected, connectedUsers, userActiveChats, activeCalls,
                   timers, tasks, dbCalls, dbMessages, endedSent>>

\* ------------------------------------------------------------ durable calls
DbCreateCall(db, at) ==
    Append(db, [status |-> "initiated", createdAt |-> at, endedAt |-> NoTime,
                duration |-> NoTime])

DbUpdateCall(db, cid, status, endedAt, duration) ==
    [db EXCEPT ![cid] = [@ EXCEPT !.status = status,
                                  !.endedAt = IF endedAt = NoTime THEN @ ELSE endedAt,
                                  !.duration = IF duration = NoTime THEN @ ELSE duration]]

\* The `prisma.call.update` a handler is awaiting: the data were evaluated
\* before the await.
CallUpdate(db, t) ==
    CASE t.h = "accept_call" -> DbUpdateCall(db, t.callId, "accepted", NoTime, NoTime)
      [] t.h = "reject_call" -> DbUpdateCall(db, t.callId, "rejected", t.at, NoTime)
      [] t.h = "end_call"    -> DbUpdateCall(db, t.callId, "ended", t.at, t.dur)
      [] t.h = "disconnect"  -> DbUpdateCall(db, t.callId, "ended", t.at, NoTime)

\* The records when the handler resumes from a successful update: the store
\* applies the update then, unless it has applied it already.
Commit(db, t) == IF t.written THEN db ELSE CallUpdate(db, t)

\* The store applies an awaited update before the awaiting handler resumes:
\* the store is another process, and the order in which it applies the updates
\* of two handlers need not be the order in which the two handlers resume.
StoreAppliesUpdate(t) ==
    /\ t \in TaskSet
    /\ t.h \in {"accept_call", "reject_call", "end_call", "disconnect"}
    /\ ~t.written
    /\ dbCalls' = CallUpdate(dbCalls, t)
    /\ tasks' = Spawn(Retire(tasks, t), [t EXCEPT !.written = TRUE])
    /\ emits' = <<>>
    /\ last' = Step(t.h, "written", t.client, t.user, NoUser, t.callId, TRUE)
    /\ UNCHANGED <<events, sockUser, connected, connectedUsers, userActiveChats, activeCalls,
                   timers, dbMessages, now, endedSent>>

\* ---------------------------------------------------- grace period teardown
\* The next entry after place `pos` of the Map's iteration that names userId.
NextMatch(calls, userId, pos) ==
    LET hits == {i \in (pos + 1)..Len(calls) :
                    calls[i].callerId = userId \/ calls[i].receiverId = userId}
    IN  IF hits = {} THEN 0 ELSE CHOOSE i \in hits : \A j \in hits : i <= j

\* (mutant) the callback tears down without looking at the binding.
StillBound_Always(registry, tm) == TRUE

\* The check the timer callback makes when it fires.
StillBound(registry, tm) == registry[tm.user] = tm.sock

\* The setTimeout callback of handleDisconnect, and handleUserDisconnectFromCalls
\* up to its first `await this.prisma.call.update`.  The 3000 ms of the timeout are
\* not measured against the clock: the callback may run at any point after the
\* disconnect, which covers every placement of the other events around it.
TimerFire(tm) ==
    /\ tm \in timers
    /\ timers' = timers \ {tm}
    /\ emits' = <<>>
    /\ IF StillBound(connectedUsers, tm)
       THEN LET i == NextMatch(activeCalls, tm.user, 0) IN
            /\ connectedUsers' = [connectedUsers EXCEPT ![tm.user] = NoSocket]
            /\ userActiveChats' = [userActiveChats EXCEPT ![tm.user] = NoUser]
            /\ i # 0 => InFlight < MaxTasks
            /\ tasks' = IF i = 0 THEN tasks
                        ELSE Spawn(tasks, [NoTask EXCEPT !.h = "disconnect", !.pc = "update",
                                                         !.client = tm.sock, !.user = tm.user,
                                                         !.callId = activeCalls[i].id,
                                                         !.pos = i, !.alias = TRUE, !.at = now])
            /\ last' = Step("timer", "teardown", tm.sock, tm.user, NoUser, 0, TRUE)
       ELSE /\ UNCHANGED <<connectedUsers, userActiveChats, tasks>>
            /\ last' = Step("timer", "superseded", tm.sock, tm.user, NoUser, 0, TRUE)
    /\ UNCHANGED <<events, sockUser, connected, activeCalls, dbCalls, dbMessages, now, endedSent>>

\* The socket handleUserDisconnectFromCalls notifies for one call.
OtherSocketId(call, userId) ==
    IF call.callerId = userId THEN call.receiverSocketId ELSE call.callerSocketId

\* One turn of the loop of handleUserDisconnectFromCalls, from the resumption
\* after the update (applied, or thrown and caught) to the next await.
UserDisconnectFromCall(t, ok) ==
    /\ t \in TaskSet
    /\ t.h = "disconnect"
    /\ LET call == Local(t)
           other == OtherSocketId(call, t.user)
           calls1 == MapDelete(activeCalls, t.callId)
           rest == TasksOnDelete(Retire(tasks, t), activeCalls, t.callId)
           pos1 == IF HasIn(activeCalls, t.callId) /\ IndexIn(activeCalls, t.callId) <= t.pos
                   THEN t.pos - 1 ELSE t.pos
           j == NextMatch(calls1, t.user, pos1)
       IN  /\ t.written => ok
           /\ dbCalls' = IF ok THEN Commit(dbCalls, t) ELSE dbCalls
           /\ emits' = IF other # NoSocket /\ isSocketConnected(other)
                       THEN <<CallEmit(other, "call_ended", t.callId)>> ELSE <<>>
           /\ activeCalls' = calls1
           /\ tasks' = IF j = 0 THEN rest
                       ELSE Spawn(rest, [t EXCEPT !.callId = calls1[j].id, !.pos = j,
                                                  !.alias = TRUE, !.call = NoCall, !.at = now,
                                                  !.written = FALSE])
           /\ last' = Step("timer", "ended", t.client, t.user, NoUser, t.callId, ok)
    /\ endedSent' = CountEnded(endedSent, emits')
    /\ UNCHANGED <<events, sockUser, connected, connectedUsers, userActiveChats, timers,
                   dbMessages, now>>

\* ------------------------------------------------------- call state machine
\* (mutant) the two socket ids stored the wrong way round.
NewCall_SwappedSockets(cid, callerId, receiverId, callerSocketId, receiverSocketId, type, at) ==
    [id |-> cid, callerId |-> callerId, receiverId |-> receiverId,
     callerSocketId |-> receiverSocketId, receiverSocketId |-> callerSocketId,
     status |-> "initiated", type |-> type, createdAt |-> at]

\* The object handleInitiateCall stores: the created record plus both sockets.
NewCall(cid, callerId, receiverId, callerSocketId, receiverSocketId, type, at) ==
    [id |-> cid, callerId |-> callerId, receiverId |-> receiverId,
     callerSocketId |-> callerSocketId, receiverSocketId |-> receiverSocketId,
     status |-> "initiated", type |-> type, createdAt |-> at]

\* (mutant) every receiver counts as reachable.
IsOffline_Never(receiverSocketId) == FALSE

\* `if (!receiverSocketId)`
IsOffline(receiverSocketId) == receiverSocketId = NoSocket

\* handleInitiateCall up to `await this.prisma.call.create`.
HandleInitiateCall(s, receiverId, type) ==
    LET receiverSocketId == connectedUsers[receiverId] IN
    /\ s \in connected
    /\ events < MaxEvents
    /\ events' = events + 1
    /\ IF IsOffline(receiverSocketId)
       THEN /\ emits' = <<FailEmit(s, "call_failed", "User is offline")>>
            /\ tasks' = tasks
            /\ last' = Step("initiate_call", "offline", s, sockUser[s], receiverId, 0, TRUE)
       ELSE /\ InFlight < MaxTasks
            /\ emits' = <<>>
            /\ tasks' = Spawn(tasks, [NoTask EXCEPT !.h = "initiate_call", !.pc = "create",
                                                    !.client = s, !.user = sockUser[s],
                                                    !.peer = receiverId,
                                                    !.rsock = receiverSocketId,
                                                    !.type = type])
            /\ last' = Step("initiate_call", "guard", s, sockUser[s], receiverId, 0, TRUE)
    /\ UNCHANGED <<sockUser, connected, connectedUsers, userActiveChats, activeCalls,
                   timers, dbCalls, dbMessages, now, endedSent>>

\* handleInitiateCall from the resumption after the create to its end.
InitiateCallCreated(t, ok) ==
    LET cid == Len(dbCalls) + 1 IN
    /\ t \in TaskSet
    /\ t.h = "initiate_call"
    /\ tasks' = Retire(tasks, t)
    /\ IF ok
       THEN /\ dbCalls' = DbCreateCall(dbCalls, now)
            /\ activeCalls' = MapSet(activeCalls,
                                NewCall(cid, t.user, t.peer, t.client, t.rsock, t.type, now))
            /\ emits' = <<CallEmit(t.client, "call_initiated", cid),
                          Emit(t.rsock, "incoming_call", cid, t.user, NoUser, t.type, NoCounts)>>
            /\ last' = Step("initiate_call", "created", t.client, t.user, t.peer, cid, TRUE)
       ELSE /\ UNCHANGED <<dbCalls, activeCalls>>
            /\ emits' = <<FailEmit(t.client, "call_failed", "Failed to initiate call")>>
            /\ last' = Step("initiate_call", "failed", t.client, t.user, t.peer, 0, FALSE)
    /\ UNCHANGED <<events, sockUser, connected, connectedUsers, userActiveChats, timers,
                   dbMessages, now, endedSent>>

\* (mutant) the guard lets every call id through.
CallFound_Always(calls, cid) == TRUE

\* The guard of handleAcceptCall, handleRejectCall and handleEndCall.
CallFound(calls, cid) == HasIn(calls, cid)

\* handleAcceptCall up to `await this.prisma.call.update`.
HandleAcceptCall(s, cid) ==
    /\ s \in connected
    /\ events < MaxEvents
    /\ events' = events + 1
    /\ IF ~CallFound(activeCalls, cid)
       THEN /\ emits' = <<FailEmit(s, "call_failed", "Call not found")>>
            /\ tasks' = tasks
            /\ last' = Step("accept_call", "absent", s, sockUser[s], NoUser, cid, TRUE)
       ELSE /\ InFlight < MaxTasks
            /\ emits' = <<>>
            /\ tasks' = Spawn(tasks, [NoTask EXCEPT !.h = "accept_call", !.pc = "update",
                                                    !.client = s, !.user = sockUser[s],
                                                    !.callId = cid, !.alias = TRUE])
            /\ last' = Step("accept_call", "guard", s, sockUser[s], NoUser, cid, TRUE)
    /\ UNCHANGED <<sockUser, connected, connectedUsers, userActiveChats, activeCalls,
                   timers, dbCalls, dbMessages, now, endedSent>>

\* The events handleAcceptCall emits once the update is through.
AcceptEmits(call, client, cid) ==
    (IF call.callerSocketId # NoSocket /\ isSocketConnected(call.callerSocketId)
     THEN <<CallEmit(call.callerSocketId, "call_accepted", cid)>> ELSE <<>>)
    \o <<CallEmit(client, "call_accepted", cid)>>

\* handleAcceptCall from the resumption after the update to its end.
AcceptCallUpdated(t, ok) ==
    LET call == Local(t) IN
    /\ t \in TaskSet
    /\ t.h = "accept_call"
    /\ t.written => ok
    /\ IF ok
       THEN /\ dbCalls' = Commit(dbCalls, t)
            /\ activeCalls' = MapSet(activeCalls,
                                [call EXCEPT !.receiverSocketId = t.client,
                                             !.status = "accepted"])
            /\ tasks' = TasksOnReplace(Retire(tasks, t), activeCalls, t.callId)
            /\ emits' = AcceptEmits(call, t.client, t.callId)
            /\ last' = Step("accept_call", "accepted", t.client, t.user, NoUser, t.callId, TRUE)
       ELSE /\ UNCHANGED <<dbCalls, activeCalls>>
            /\ tasks' = Retire(tasks, t)
            /\ emits' = <<FailEmit(t.client, "call_failed", "Failed to accept call")>>
            /\ last' = Step("accept_call", "failed", t.client, t.user, NoUser, t.callId, FALSE)
    /\ UNCHANGED <<events, sockUser, connected, connectedUsers, userActiveChats, timers,
                   dbMessages, now, endedSent>>

\* handleRejectCall up to `await this.prisma.call.update`.
HandleRejectCall(s, cid) ==
    /\ s \in connected
    /\ events < MaxEvents
    /\ events' = events + 1
    /\ emits' = <<>>
    /\ IF ~CallFound(activeCalls, cid)
       THEN /\ tasks' = tasks
            /\ last' = Step("reject_call", "absent", s, sockUser[s], NoUser, cid, TRUE)
       ELSE /\ InFlight < MaxTasks
            /\ tasks' = Spawn(tasks, [NoTask EXCEPT !.h = "reject_call", !.pc = "update",
                                                    !.client = s, !.user = sockUser[s],
                                                    !.callId = cid, !.alias = TRUE,
                                                    !.at = now])
            /\ last' = Step("reject_call", "guard", s, sockUser[s], NoUser, cid, TRUE)
    /\ UNCHANGED <<sockUser, connected, connectedUsers, userActiveChats, activeCalls,
                   timers, dbCalls, dbMessages, now, endedSent>>

\* handleRejectCall from the resumption after the update to its end.
RejectCallUpdated(t, ok) ==
    LET call == Local(t) IN
    /\ t \in TaskSet
    /\ t.h = "reject_call"
    /\ t.written => ok
    /\ IF ok
       THEN /\ dbCalls' = Commit(dbCalls, t)
            /\ emits' = IF call.callerSocketId # NoSocket
                           /\ isSocketConnected(call.callerSocketId)
                        THEN <<CallEmit(call.callerSocketId, "call_rejected", t.callId)>>
                        ELSE <<>>
            /\ activeCalls' = MapDelete(activeCalls, t.callId)
            /\ tasks' = TasksOnDelete(Retire(tasks, t), activeCalls, t.callId)
            /\ last' = Step("reject_call", "rejected", t.client, t.user, NoUser, t.callId, TRUE)
       ELSE /\ UNCHANGED <<dbCalls, activeCalls>>
            /\ tasks' = Retire(tasks, t)
            /\ emits' = <<FailEmit(t.client, "call_failed", "Failed to reject call")>>
            /\ last' = Step("reject_call", "failed", t.client, t.user, NoUser, t.callId, FALSE)
    /\ UNCHANGED <<events, sockUser, connected, connectedUsers, userActiveChats, timers,
                   dbMessages, now, endedSent>>

\* (mutant) the difference is stored in ms.
Duration_Ms(nowMs, createdAt) == nowMs - createdAt

\* Math.floor((Date.now() - new Date(call.createdAt).getTime()) / 1000)
Duration(nowMs, createdAt) == (nowMs - createdAt) \div MsPerSecond

\* handleEndCall up to `await this.prisma.call.update`: the duration and the
\* end time are computed before the await.
HandleEndCall(s, cid) ==
    /\ s \in connected
    /\ events < MaxEvents
    /\ events' = events + 1
    /\ emits' = <<>>
    /\ IF ~CallFound(activeCalls, cid)
       THEN /\ tasks' = tasks
            /\ last' = Step("end_call", "absent", s, sockUser[s], NoUser, cid, TRUE)
       ELSE /\ InFlight < MaxTasks
            /\ tasks' = Spawn(tasks, [NoTask EXCEPT !.h = "end_call", !.pc = "update",
                                        !.client = s, !.user = sockUser[s],
                                        !.callId = cid, !.alias = TRUE, !.at = now,
                                        !.dur = Duration(now, GetIn(activeCalls, cid).createdAt)])
            /\ last' = Step("end_call", "guard", s, sockUser[s], NoUser, cid, TRUE)
    /\ UNCHANGED <<sockUser, connected, connectedUsers, userActiveChats, activeCalls,
                   timers, dbCalls, dbMessages, now, endedSent>>

\* The sockets handleEndCall notifies, in order.
EndSockets(call) ==
    SelectSeq(<<call.callerSocketId, call.receiverSocketId>>,
              LAMBDA socketId : socketId # NoSocket /\ isSocketConnected(socketId))

\* handleEndCall from the resumption after the update to its end.
EndCallUpdated(t, ok) ==
    LET call == Local(t)
        sockets == EndSockets(call)
    IN
    /\ t \in TaskSet
    /\ t.h = "end_call"
    /\ t.written => ok
    /\ IF ok
       THEN /\ dbCalls' = Commit(dbCalls, t)
            /\ emits' = [i \in 1..Len(sockets) |-> CallEmit(sockets[i], "call_ended", t.callId)]
            /\ activeCalls' = MapDelete(activeCalls, t.callId)
            /\ tasks' = TasksOnDelete(Retire(tasks, t), activeCalls, t.callId)
            /\ last' = Step("end_call", "ended", t.client, t.user, NoUser, t.callId, TRUE)
       ELSE /\ UNCHANGED <<dbCalls, activeCalls>>
            /\ tasks' = Retire(tasks, t)
            /\ emits' = <<FailEmit(t.client, "call_failed", "Failed to end call")>>
            /\ last' = Step("end_call", "failed", t.client, t.user, NoUser, t.callId, FALSE)
    /\ endedSent' = CountEnded(endedSent, emits')
    /\ UNCHANGED <<events, sockUser, connected, connectedUsers, userActiveChats, timers,
                   dbMessages, now>>

\* --------------------------------------------------------- durable messages
\* The read flag of a created message: the create names none, the store's
\* schema supplies it.
IsReadDefault == FALSE

Message(senderId, receiverId, isRead) ==
    [senderId |-> senderId, receiverId |-> receiverId, isRead |-> isRead]

DbCreateMessage(db, senderId, receiverId) ==
    db (+) SetToBag({Message(senderId, receiverId, IsReadDefault)})

\* The where clause of the updateMany of mark_messages_read and set_active_chat.
Marks(m, senderId, receiverId) ==
    m.senderId = senderId /\ m.receiverId = receiverId /\ ~m.isRead

\* updateMany(...).count
DbCountUnread(db, senderId, receiverId) ==
    IF Message(senderId, receiverId, FALSE) \in BagToSet(db)
    THEN db[Message(senderId, receiverId, FALSE)] ELSE 0

\* updateMany({where: {senderId, receiverId, isRead: false}, data: {isRead: true}})
DbMarkRead(db, senderId, receiverId) ==
    ReKey(db, [m \in BagToSet(db) |->
                 IF Marks(m, senderId, receiverId) THEN [m EXCEPT !.isRead = TRUE] ELSE m])

\* (mutant) the groupBy keyed the wrong way round: the user's own unread
\* messages, by receiver.
UnreadCounts_BySender(db, userId) ==
    [r \in {m.receiverId : m \in {x \in BagToSet(db) : x.senderId = userId /\ ~x.isRead}}
        |-> db[Message(userId, r, FALSE)]]

\* groupBy senderId where receiverId = userId and isRead = false, reduced to
\* the record senderId -> count: only senders with unread messages are keys.
UnreadCounts(db, userId) ==
    [s \in {m.senderId : m \in {x \in BagToSet(db) : x.receiverId = userId /\ ~x.isRead}}
        |-> db[Message(s, userId, FALSE)]]

\* The emit of sendUnreadCounts: to the user's binding at that moment, if any;
\* nothing when the groupBy throws (ok = FALSE).
sendUnreadCounts(userId, ok) ==
    IF ok /\ connectedUsers[userId] # NoSocket
    THEN <<Emit(connectedUsers[userId], "unread_counts", 0, userId, NoUser, "",
                UnreadCounts(dbMessages, userId))>>
    ELSE <<>>

MsgEmit(to, ev, senderId, receiverId) == Emit(to, ev, 0, senderId, receiverId, "", NoCounts)

\* handleConnection from the resumption inside sendUnreadCounts to its end.
ConnectionUnreadSent(t, ok) ==
    /\ t \in TaskSet
    /\ t.h = "connect"
    /\ tasks' = Retire(tasks, t)
    /\ emits' = sendUnreadCounts(t.user, ok)
    /\ last' = Step("connect", "unread", t.client, t.user, NoUser, 0, ok)
    /\ UNCHANGED <<events, sockUser, connected, connectedUsers, userActiveChats, activeCalls,
                   timers, dbCalls, dbMessages, now, endedSent>>

\* ------------------------------------------------------------ message router
\* handleMessage up to `await this.prisma.message.create`.
HandleMessage(s, receiverId) ==
    /\ s \in connected
    /\ InFlight < MaxTasks
    /\ events < MaxMsgEvents
    /\ events' = events + 1
    /\ tasks' = Spawn(tasks, [NoTask EXCEPT !.h = "send_message", !.pc = "create",
                                            !.client = s, !.user = sockUser[s],
                                            !.peer = receiverId])
    /\ emits' = <<>>
    /\ last' = Step("send_message", "start", s, sockUser[s], receiverId, 0, TRUE)
    /\ UNCHANGED <<sockUser, connected, connectedUsers, userActiveChats, activeCalls,
                   timers, dbCalls, dbMessages, now, endedSent>>

\* handleMessage from the resumption after the create to the await of
\* sendUnreadCounts (receiver bound) or to its end (receiver not bound, or
\* the create threw).
MessageCreated(t, ok) ==
    LET receiverSocketId == connectedUsers[t.peer] IN
    /\ t \in TaskSet
    /\ t.h = "send_message"
    /\ t.pc = "create"
    /\ IF ~ok
       THEN /\ dbMessages' = dbMessages
            /\ tasks' = Retire(tasks, t)
            /\ emits' = <<FailEmit(t.client, "error", "Failed to send message")>>
            /\ last' = Step("send_message", "failed", t.client, t.user, t.peer, 0, FALSE)
       ELSE /\ dbMessages' = DbCreateMessage(dbMessages, t.user, t.peer)
            /\ IF receiverSocketId # NoSocket
               THEN /\ tasks' = Spawn(Retire(tasks, t), [t EXCEPT !.pc = "unread"])
                    /\ emits' = <<MsgEmit(receiverSocketId, "receive_message", t.user, t.peer)>>
                    /\ last' = Step("send_message", "pushed", t.client, t.user, t.peer, 0, TRUE)
               ELSE /\ tasks' = Retire(tasks, t)
                    /\ emits' = <<MsgEmit(t.client, "message_sent", t.user, t.peer)>>
                    /\ last' = Step("send_message", "stored", t.client, t.user, t.peer, 0, TRUE)
    /\ UNCHANGED <<events, sockUser, connected, connectedUsers, userActiveChats, activeCalls,
                   timers, dbCalls, now, endedSent>>

\* handleMessage from the resumption inside sendUnreadCounts(receiverId) to its end.
MessageUnreadSent(t, ok) ==
    /\ t \in TaskSet
    /\ t.h = "send_message"
    /\ t.pc = "unread"
    /\ tasks' = Retire(tasks, t)
    /\ emits' = sendUnreadCounts(t.peer, ok)
                \o <<MsgEmit(t.client, "message_sent", t.user, t.peer)>>
    /\ last' = Step("send_message", "acked", t.client, t.user, t.peer, 0, ok)
    /\ UNCHANGED <<events, sockUser, connected, connectedUsers, userActiveChats, activeCalls,
                   timers, dbCalls, dbMessages, now, endedSent>>

\* handleGetUnreadCounts up to the groupBy of sendUnreadCounts.
HandleGetUnreadCounts(s) ==
    /\ s \in connected
    /\ InFlight < MaxTasks
    /\ events < MaxMsgEvents
    /\ events' = events + 1
    /\ tasks' = Spawn(tasks, [NoTask EXCEPT !.h = "get_unread_counts", !.pc = "unread",
                                            !.client = s, !.user = sockUser[s]])
    /\ emits' = <<>>
    /\ last' = Step("get_unread_counts", "start", s, sockUser[s], NoUser, 0, TRUE)
    /\ UNCHANGED <<sockUser, connected, connectedUsers, userActiveChats, activeCalls,
                   timers, dbCalls, dbMessages, now, endedSent>>

\* handleGetUnreadCounts from the resumption inside sendUnreadCounts to its end.
UnreadCountsSent(t, ok) ==
    /\ t \in TaskSet
    /\ t.h = "get_unread_counts"
    /\ tasks' = Retire(tasks, t)
    /\ emits' = sendUnreadCounts(t.user, ok)
    /\ last' = Step("get_unread_counts", "sent", t.client, t.user, NoUser, 0, ok)
    /\ UNCHANGED <<events, sockUser, connected, connectedUsers, userActiveChats, activeCalls,
                   timers, dbCalls, dbMessages, now, endedSent>>

\* The messages_marked_read sent to the sender of the messages, if bound.
NotifySender(senderId, currentUserId) ==
    IF connectedUsers[senderId] # NoSocket
    THEN <<MsgEmit(connectedUsers[senderId], "messages_marked_read", senderId, currentUserId)>>
    ELSE <<>>

\* handleMarkMessagesRead up to `await this.prisma.message.updateMany`.
HandleMarkMessagesRead(s, senderId) ==
    /\ s \in connected
    /\ InFlight < MaxTasks
    /\ events < MaxMsgEvents
    /\ events' = events + 1
    /\ tasks' = Spawn(tasks, [NoTask EXCEPT !.h = "mark_messages_read", !.pc = "update",
                                            !.client = s, !.user = sockUser[s],
                                            !.peer = senderId])
    /\ emits' = <<>>
    /\ last' = Step("mark_messages_read", "start", s, sockUser[s], senderId, 0, TRUE)
    /\ UNCHANGED <<sockUser, connected, connectedUsers, userActiveChats, activeCalls,
                   timers, dbCalls, dbMessages, now, endedSent>>

\* handleMarkMessagesRead from the resumption after updateMany to the groupBy.
MessagesMarkedRead(t, ok) ==
    /\ t \in TaskSet
    /\ t.h = "mark_messages_read"
    /\ t.pc = "update"
    /\ IF ok
       THEN /\ dbMessages' = DbMarkRead(dbMessages, t.peer, t.user)
            /\ tasks' = Spawn(Retire(tasks, t), [t EXCEPT !.pc = "unread"])
            /\ emits' = <<>>
            /\ last' = Step("mark_messages_read", "marked", t.client, t.user, t.peer, 0, TRUE)
       ELSE /\ dbMessages' = dbMessages
            /\ tasks' = Retire(tasks, t)
            /\ emits' = <<FailEmit(t.client, "error", "Failed to mark messages as read")>>
            /\ last' = Step("mark_messages_read", "failed", t.client, t.user, t.peer, 0, FALSE)
    /\ UNCHANGED <<events, sockUser, connected, connectedUsers, userActiveChats, activeCalls,
                   timers, dbCalls, now, endedSent>>

\* handleMarkMessagesRead from the resumption inside sendUnreadCounts to its end.
MarkReadUnreadSent(t, ok) ==
    /\ t \in TaskSet
    /\ t.h = "mark_messages_read"
    /\ t.pc = "unread"
    /\ tasks' = Retire(tasks, t)
    /\ emits' = sendUnreadCounts(t.user, ok)
                \o NotifySender(t.peer, t.user)
                \o <<MsgEmit(t.client, "messages_marked_read", t.peer, t.user)>>
    /\ last' = Step("mark_messages_read", "notified", t.client, t.user, t.peer, 0, ok)
    /\ UNCHANGED <<events, sockUser, connected, connectedUsers, userActiveChats, activeCalls,
                   timers, dbCalls, dbMessages, now, endedSent>>

\* handleSetActiveChat with a receiverId, up to `await ...updateMany`.
HandleSetActiveChat(s, receiverId) ==
    /\ s \in connected
    /\ InFlight < MaxTasks
    /\ events < MaxMsgEvents
    /\ events' = events + 1
    /\ userActiveChats' = [userActiveChats EXCEPT ![sockUser[s]] = receiverId]
    /\ tasks' = Spawn(tasks, [NoTask EXCEPT !.h = "set_active_chat", !.pc = "update",
                                            !.client = s, !.user = sockUser[s],
                                            !.peer = receiverId])
    /\ emits' = <<>>
    /\ last' = Step("set_active_chat", "start", s, sockUser[s], receiverId, 0, TRUE)
    /\ UNCHANGED <<sockUser, connected, connectedUsers, activeCalls, timers, dbCalls,
                   dbMessages, now, endedSent>>

\* handleSetActiveChat with receiverId null.
HandleClearActiveChat(s) ==
    /\ s \in connected
    /\ events < MaxMsgEvents
    /\ events' = events + 1
    /\ userActiveChats' = [userActiveChats EXCEPT ![sockUser[s]] = NoUser]
    /\ emits' = <<>>
    /\ last' = Step("set_active_chat", "cleared", s, sockUser[s], NoUser, 0, TRUE)
    /\ UNCHANGED <<sockUser, connected, connectedUsers, activeCalls, timers, tasks, dbCalls,
                   dbMessages, now, endedSent>>

\* handleSetActiveChat from the resumption after updateMany to the groupBy.
ActiveChatMarkedRead(t, ok) ==
    /\ t \in TaskSet
    /\ t.h = "set_active_chat"
    /\ t.pc = "update"
    /\ IF ok
       THEN /\ dbMessages' = DbMarkRead(dbMessages, t.peer, t.user)
            /\ tasks' = Spawn(Retire(tasks, t),
                              [t EXCEPT !.pc = "unread",
                                        !.n = DbCountUnread(dbMessages, t.peer, t.user)])
            /\ emits' = <<>>
            /\ last' = Step("set_active_chat", "marked", t.client, t.user, t.peer, 0, TRUE)
       ELSE /\ dbMessages' = dbMessages
            /\ tasks' = Retire(tasks, t)
            /\ emits' = <<FailEmit(t.client, "error", "Failed to set active chat")>>
            /\ last' = Step("set_active_chat", "failed", t.client, t.user, t.peer, 0, FALSE)
    /\ UNCHANGED <<events, sockUser, connected, connectedUsers, userActiveChats, activeCalls,
                   timers, dbCalls, now, endedSent>>

\* handleSetActiveChat from the resumption inside sendUnreadCounts to its end.
ActiveChatUnreadSent(t, ok) ==
    /\ t \in TaskSet
    /\ t.h = "set_active_chat"
    /\ t.pc = "unread"
    /\ tasks' = Retire(tasks, t)
    /\ emits' = sendUnreadCounts(t.user, ok)
                \o (IF t.n > 0 THEN NotifySender(t.peer, t.user) ELSE <<>>)
    /\ last' = Step("set_active_chat", "notified", t.client, t.user, t.peer, t.n, ok)
    /\ UNCHANGED <<events, sockUser, connected, connectedUsers, userActiveChats, activeCalls,
                   timers, dbCalls, dbMessages, now, endedSent>>

\* ------------------------------------------------------------ WebRTC relay
\* (mutant) the target is taken to be live without asking the server.
RelayTargetLive_Always(socketId) == TRUE

\* `targetSocketId && this.isSocketConnected(targetSocketId)`
RelayTargetLive(socketId) == socketId # NoSocket /\ isSocketConnected(socketId)

\* The body the three relay handlers share: look the call up, pick the target
\* from the entry, forward when the target is live.  `failure` is the reason
\* of the call_failed an offer or answer answers with when the target is not
\* live; `silent` is TRUE for ICE candidates, which are dropped without one.
\* No relay handler awaits anything, so each is a single step.
Relay(s, cid, ev, target, failure, silent) ==
    /\ s \in connected
    /\ events < MaxEvents
    /\ events' = events + 1
    /\ IF ~HasIn(activeCalls, cid)
       THEN /\ emits' = IF silent THEN <<>>
                        ELSE <<FailEmit(s, "call_failed", "Call not found")>>
            /\ last' = Step(ev, "absent", s, sockUser[s], NoUser, cid, TRUE)
       ELSE IF ~RelayTargetLive(target)
            THEN /\ emits' = IF silent THEN <<>>
                             ELSE <<FailEmit(s, "call_failed", failure)>>
                 /\ last' = Step(ev, "unreachable", s, sockUser[s], NoUser, cid, TRUE)
            ELSE /\ emits' = <<CallEmit(target, ev, cid)>>
                 /\ last' = Step(ev, "forwarded", s, sockUser[s], NoUser, cid, TRUE)
    /\ UNCHANGED <<sockUser, connected, connectedUsers, userActiveChats, activeCalls,
                   timers, tasks, dbCalls, dbMessages, now, endedSent>>

\* handleWebRTCOffer: the target is always the entry's receiver session.
HandleWebRTCOffer(s, cid) ==
    Relay(s, cid, "webrtc_offer", GetIn(activeCalls, cid).receiverSocketId,
          "Receiver disconnected", FALSE)

\* handleWebRTCAnswer: the target is always the entry's caller session.
HandleWebRTCAnswer(s, cid) ==
    Relay(s, cid, "webrtc_answer", GetIn(activeCalls, cid).callerSocketId,
          "Caller disconnected", FALSE)

\* client.id === call.callerSocketId ? call.receiverSocketId : call.callerSocketId
IceTarget(call, socketId) ==
    IF socketId = call.callerSocketId THEN call.receiverSocketId ELSE call.callerSocketId

\* handleWebRTCIceCandidate
HandleWebRTCIceCandidate(s, cid) ==
    Relay(s, cid, "webrtc_ice_candidate", IceTarget(GetIn(activeCalls, cid), s), "", TRUE)

\* ----------------------------------------------------------- specification
\* The call ids a client event may name: every id handed out so far and one
\* that was never created.
CallIdInputs == 1..(Len(dbCalls) + 1)

\* `oks` is what the durable store may answer: {TRUE} when it serves every
\* call, BOOLEAN when it may also reject one.
NextSession(oks) ==
    \/ \E u \in Users : HandleConnection(u)
    \/ \E t \in TaskSet, ok \in oks : ConnectionUnreadSent(t, ok)
    \/ \E s \in Sockets : HandleDisconnect(s)
    \/ \E tm \in timers : TimerFire(tm)

\* Placing and accepting calls, and the grace-period teardown.
NextCallSetup(oks) ==
    \/ \E t \in TaskSet, ok \in oks : UserDisconnectFromCall(t, ok)
    \/ \E s \in Sockets, r \in Users, ty \in CallTypes : HandleInitiateCall(s, r, ty)
    \/ \E t \in TaskSet, ok \in oks : InitiateCallCreated(t, ok)
    \/ \E s \in Sockets, cid \in CallIdInputs : HandleAcceptCall(s, cid)
    \/ \E t \in TaskSet, ok \in oks : AcceptCallUpdated(t, ok)

\* Rejecting and ending calls.
NextCallClose(oks) ==
    \/ \E s \in Sockets, cid \in CallIdInputs : HandleRejectCall(s, cid)
    \/ \E t \in TaskSet, ok \in oks : RejectCallUpdated(t, ok)
    \/ \E s \in Sockets, cid \in CallIdInputs : HandleEndCall(s, cid)
    \/ \E t \in TaskSet, ok \in oks : EndCallUpdated(t, ok)

NextCall(oks) == NextCallSetup(oks) \/ NextCallClose(oks)

NextMsg(oks) ==
    \/ \E s \in Sockets, r \in Users : HandleMessage(s, r)
    \/ \E t \in TaskSet, ok \in oks : MessageCreated(t, ok)
    \/ \E t \in TaskSet, ok \in oks : MessageUnreadSent(t, ok)
    \/ \E s \in Sockets : HandleGetUnreadCounts(s)
    \/ \E t \in TaskSet, ok \in oks : UnreadCountsSent(t, ok)
    \/ \E s \in Sockets, u \in Users : HandleMarkMessagesRead(s, u)
    \/ \E t \in TaskSet, ok \in oks : MessagesMarkedRead(t, ok)
    \/ \E t \in TaskSet, ok \in oks : MarkReadUnreadSent(t, ok)
    \/ \E s \in Sockets, r \in Users : HandleSetActiveChat(s, r)
    \/ \E s \in Sockets : HandleClearActiveChat(s)
    \/ \E t \in TaskSet, ok \in oks : ActiveChatMarkedRead(t, ok)
    \/ \E t \in TaskSet, ok \in oks : ActiveChatUnreadSent(t, ok)

\* The presence registry and the call state machine, the store serving every call.
Next == NextSession({TRUE}) \/ NextCall({TRUE})

Spec == Init /\ [][Next]_vars

\* The same with the clock running.
SpecTime == Init /\ [][Next \/ Tick]_vars

\* The same with a store that may reject a call.
SpecStore == Init /\ [][NextSession({TRUE}) \/ NextCall(BOOLEAN)]_vars

\* The presence registry and the message router.
SpecMsg == Init /\ [][NextSession({TRUE}) \/ NextMsg({TRUE})]_vars

NextRelay ==
    \/ \E s \in Sockets, cid \in CallIdInputs : HandleWebRTCOffer(s, cid)
    \/ \E s \in Sockets, cid \in CallIdInputs : HandleWebRTCAnswer(s, cid)
    \/ \E s \in Sockets, cid \in CallIdInputs : HandleWebRTCIceCandidate(s, cid)

\* The presence registry, calls placed, accepted and torn down, and the
\* in-call relay.
SpecRelay == Init /\ [][NextSession({TRUE}) \/ NextCallSetup({TRUE}) \/ NextRelay]_vars

NextStore == \E t \in TaskSet : StoreAppliesUpdate(t)

\* The presence registry and the call state machine over a store that never
\* fails and applies each awaited update at some point between the await and
\* the resumption of the handler.
SpecCommit == Init /\ [][NextSession({TRUE}) \/ NextCall({TRUE}) \/ NextStore]_vars

\* ------------------------------------------------------------------ claims
\* Helpers of the formulas below.  `last'` names the step a transition took,
\* so a formula [][last'.h = ... => ...]_vars speaks of every such step, with
\* the unprimed variables the state the step started from.
MostRecentAttach(u) ==
    LET mine == {s \in 1..Len(sockUser) : sockUser[s] = u}
    IN  IF mine = {} THEN NoSocket ELSE CHOOSE s \in mine : \A x \in mine : x <= s

EventsOf(es) == {es[i].ev : i \in 1..Len(es)}

GuardStretch(step, h) == step.h = h /\ step.pc \in {"absent", "offline", "guard"}

\* C1: the presence registry is last-writer-wins.  A user's binding, when there
\* is one, is the session of that user's most recent attach and the session of
\* nobody else, so an earlier session of the user is never held once a later
\* one has attached; and right after an attach of u on s, lookup(u) = s.
C1_LastWriterWins ==
    /\ \A u \in Users :
          connectedUsers[u] # NoSocket =>
             /\ connectedUsers[u] = MostRecentAttach(u)
             /\ \A v \in Users \ {u} : connectedUsers[v] # connectedUsers[u]
    /\ (last.h = "connect" /\ last.pc = "bind") => connectedUsers[last.user] = last.client

\* C1 witness: bind(u, s1) then bind(u, s2) has happened and lookup(u) = s2.
C1_Witness ==
    \E u \in Users : \E s1, s2 \in 1..Len(sockUser) :
        /\ s1 < s2 /\ sockUser[s1] = u /\ sockUser[s2] = u
        /\ connectedUsers[u] = s2
        /\ last.h = "connect" /\ last.client = s2

\* C2: an initiate_call whose receiver has no binding adds nothing to the call
\* table, creates no durable record (none is written and no create is left in
\* flight), and emits exactly one event: call_failed, reason offline, to the
\* initiating session.
C2_OfflineInitiate ==
    [][(GuardStretch(last', "initiate_call") /\ connectedUsers[last'.peer] = NoSocket)
         => /\ activeCalls' = activeCalls
            /\ dbCalls' = dbCalls
            /\ tasks' = tasks
            /\ emits' = <<FailEmit(last'.client, "call_failed", "User is offline")>>]_vars

\* C2 witness: a connected session has just called a user who has no binding.
C2_Witness ==
    /\ last.h = "initiate_call" /\ last.pc = "offline"
    /\ last.client \in connected
    /\ connectedUsers[last.peer] = NoSocket
    /\ Len(emits) = 1 /\ emits[1].ev = "call_failed" /\ emits[1].to = last.client

\* C3: accept_call, reject_call or end_call naming a call id that is not in the
\* call table changes neither the call table nor the durable records, leaves no
\* handler in flight, and emits no call_accepted, call_rejected or call_ended.
C3_AbsentIsNoOp ==
    [][(/\ \/ GuardStretch(last', "accept_call")
           \/ GuardStretch(last', "reject_call")
           \/ GuardStretch(last', "end_call")
        /\ ~HasIn(activeCalls, last'.callId))
         => /\ activeCalls' = activeCalls
            /\ dbCalls' = dbCalls
            /\ tasks' = tasks
            /\ endedSent' = endedSent
            /\ EventsOf(emits') \cap {"call_accepted", "call_rejected", "call_ended"} = {}]_vars

\* C3 witness: an accept_call has just named a call that was ended before.
C3_Witness ==
    /\ last.h = "accept_call" /\ last.pc = "absent"
    /\ last.callId \in DOMAIN dbCalls
    /\ dbCalls[last.callId].status = "ended"
    /\ ~HasIn(activeCalls, last.callId)

\* The handlers a step started, and the handler a step brought to its end.
Started(before, after) == {t \in BagToSet(after) : CopiesIn(t, after) > CopiesIn(t, before)}
Finished(before, after, h, client) ==
    {t \in BagToSet(before) : /\ t.h = h /\ t.client = client
                              /\ CopiesIn(t, after) < CopiesIn(t, before)}

\* C6: an initiate_call whose receiver has a binding reads that binding as the
\* receiver's session; when its durable create succeeds it adds exactly one
\* Call Table entry, last in the table, under an identity no call had before,
\* with status initiated, the initiating session as caller session and the
\* binding it read as receiver session; it emits call_initiated to the caller
\* and incoming_call, carrying the call identity, the caller and the call
\* kind, to that receiver session; every entry already in the table is
\* unchanged.
C6_InitiateCreatesEntry ==
    [][/\ (last'.h = "initiate_call" /\ last'.pc = "guard")
            => /\ connectedUsers[last'.peer] # NoSocket
               /\ activeCalls' = activeCalls
               /\ \E t \in Started(tasks, tasks') :
                     /\ Started(tasks, tasks') = {t}
                     /\ t.h = "initiate_call"
                     /\ t.client = last'.client
                     /\ t.rsock = connectedUsers[last'.peer]
       /\ (last'.h = "initiate_call" /\ last'.pc = "created")
            => LET cid == last'.callId
                   n == Len(activeCalls)
               IN  /\ cid \notin DOMAIN dbCalls
                   /\ ~HasIn(activeCalls, cid)
                   /\ Len(activeCalls') = n + 1
                   /\ SubSeq(activeCalls', 1, n) = activeCalls
                   /\ cid \in DOMAIN dbCalls'
                   /\ dbCalls'[cid].status = "initiated"
                   /\ \E t \in Finished(tasks, tasks', "initiate_call", last'.client) :
                         /\ Finished(tasks, tasks', "initiate_call", last'.client) = {t}
                         /\ activeCalls'[n + 1].id = cid
                         /\ activeCalls'[n + 1].status = "initiated"
                         /\ activeCalls'[n + 1].callerId = sockUser[last'.client]
                         /\ activeCalls'[n + 1].receiverId = t.peer
                         /\ activeCalls'[n + 1].callerSocketId = last'.client
                         /\ activeCalls'[n + 1].receiverSocketId = t.rsock
                         /\ emits' = <<CallEmit(last'.client, "call_initiated", cid),
                                       Emit(t.rsock, "incoming_call", cid,
                                            sockUser[last'.client], NoUser,
                                            activeCalls'[n + 1].type, NoCounts)>>]_vars

\* C6 witness: A's call to B has just been created next to an existing entry,
\* B's session being another one than A's and still B's binding.
C6_Witness ==
    /\ last.h = "initiate_call" /\ last.pc = "created"
    /\ Len(activeCalls) = 2
    /\ activeCalls[2].id = last.callId
    /\ activeCalls[2].callerSocketId # activeCalls[2].receiverSocketId
    /\ activeCalls[2].receiverSocketId = connectedUsers[activeCalls[2].receiverId]
    /\ Len(emits) = 2 /\ emits[2].ev = "incoming_call"
    /\ emits[2].to = activeCalls[2].receiverSocketId

\* C8: reattachment cancels the grace timer.  When the timer of closed session
\* s of user u fires and lookup(u) # s, the Presence Registry, the Active-Chat
\* Tracker and the Call Table stay as they are, no teardown is started and
\* nothing is emitted; and the disconnect of a session that is not its user's
\* binding schedules no timer.
C8_SupersededTimer ==
    [][/\ (last'.h = "timer" /\ last'.pc \in {"teardown", "superseded"}
             /\ connectedUsers[last'.user] # last'.client)
            => /\ UNCHANGED <<connectedUsers, userActiveChats, activeCalls,
                              tasks, dbCalls, endedSent>>
               /\ emits' = <<>>
       /\ (last'.h = "disconnect" /\ connectedUsers[sockUser[last'.client]] # last'.client)
            => /\ timers' = timers
               /\ UNCHANGED <<connectedUsers, userActiveChats, activeCalls, tasks>>]_vars

\* C8 witness: the timer of a closed session has fired after its user
\* reattached, with a call of that user in the table.
C8_Witness ==
    /\ last.h = "timer" /\ last.pc = "superseded"
    /\ connectedUsers[last.user] \notin {NoSocket, last.client}
    /\ \E i \in 1..Len(activeCalls) : activeCalls[i].callerId = last.user

\* C8 witness, second half: a session that its user's binding had already
\* left has disconnected, and no timer is pending.
C8_WitnessNotCurrent ==
    /\ last.h = "disconnect"
    /\ connectedUsers[last.user] \notin {NoSocket, last.client}
    /\ timers = {}

\* calls has an entry that names userId as caller or as receiver.
Names(calls, userId) ==
    \E i \in 1..Len(calls) : calls[i].callerId = userId \/ calls[i].receiverId = userId

\* C4: when the grace timer of closed session s of user u fires after u has
\* reattached with a new session, no call is ended or removed, u's binding and
\* active-chat entry are kept, and every Call Table entry in which u is caller
\* or receiver records the new session as that participant's session.
C4_ReattachKeepsCalls ==
    [][(/\ last'.h = "timer" /\ last'.pc = "superseded"
        /\ connectedUsers[last'.user] \notin {NoSocket, last'.client})
         => /\ UNCHANGED <<connectedUsers, userActiveChats, activeCalls, dbCalls,
                           tasks, endedSent>>
            /\ \A i \in 1..Len(activeCalls') :
                  /\ activeCalls'[i].callerId = last'.user
                        => activeCalls'[i].callerSocketId = connectedUsers'[last'.user]
                  /\ activeCalls'[i].receiverId = last'.user
                        => activeCalls'[i].receiverSocketId = connectedUsers'[last'.user]]_vars

\* C5: when the grace timer of closed session s of user u fires and u has not
\* reattached, u's binding and active-chat entry are removed; each call of u
\* the teardown handles is removed from the Call Table, and once the teardown
\* has handled it the counterparty's recorded session, if still connected, has
\* been delivered exactly one call_ended for that call (none is emitted when it
\* is not connected), whatever other handler works on the same call; when the
\* teardown is through, no entry of the table names u.
C5_GraceExpiryEndsOnce ==
    [][/\ (last'.h = "timer" /\ last'.pc = "teardown")
            => /\ connectedUsers'[last'.user] = NoSocket
               /\ userActiveChats'[last'.user] = NoUser
       /\ (last'.h = "timer" /\ last'.pc = "ended")
            => /\ ~HasIn(activeCalls', last'.callId)
               /\ \A t \in Finished(tasks, tasks', "disconnect", last'.client) :
                     LET other == OtherSocketId(Local(t), last'.user)
                     IN  IF other \in connected
                         THEN CopiesIn(<<last'.callId, other>>, endedSent') = 1
                         ELSE emits' = <<>>
               /\ (~\E t \in BagToSet(tasks') : t.h = "disconnect" /\ t.client = last'.client)
                     => ~Names(activeCalls', last'.user)]_vars

\* C7: an end_call that found its call in the Call Table and whose durable
\* update succeeds leaves the table without an entry for that call; the durable
\* record then has status ended, an end time, and as duration the whole seconds
\* between the call's creation and that end time; the step emits call_ended
\* events for that call only, one to each session recorded as caller or
\* receiver in the entry end_call found that is still connected, and to no
\* other session.
C7_EndCall ==
    [][(last'.h = "end_call" /\ last'.pc = "ended")
         => LET cid == last'.callId IN
            /\ ~HasIn(activeCalls', cid)
            /\ dbCalls'[cid].status = "ended"
            /\ dbCalls'[cid].endedAt # NoTime
            /\ dbCalls'[cid].endedAt >= dbCalls'[cid].createdAt
            /\ dbCalls'[cid].duration * MsPerSecond <= dbCalls'[cid].endedAt - dbCalls'[cid].createdAt
            /\ (dbCalls'[cid].duration + 1) * MsPerSecond > dbCalls'[cid].endedAt - dbCalls'[cid].createdAt
            /\ \A i \in 1..Len(activeCalls') : \E j \in 1..Len(activeCalls) :
                  activeCalls'[i] = activeCalls[j]
            /\ \E t \in Finished(tasks, tasks', "end_call", last'.client) :
                  /\ t.callId = cid
                  /\ \A i \in 1..Len(emits') : emits'[i] = CallEmit(emits'[i].to, "call_ended", cid)
                  /\ {emits'[i].to : i \in 1..Len(emits')}
                        = {s \in {Local(t).callerSocketId, Local(t).receiverSocketId} :
                              s # NoSocket /\ s \in connected}]_vars

\* C7 witness: a call between two connected sessions was ended one and a half
\* seconds after its creation: both sessions got call_ended, the table is
\* empty and the durable record shows one second.
C7_Witness ==
    /\ last.h = "end_call" /\ last.pc = "ended"
    /\ activeCalls = <<>>
    /\ dbCalls[last.callId].status = "ended"
    /\ dbCalls[last.callId].endedAt = dbCalls[last.callId].createdAt + TickMs
    /\ dbCalls[last.callId].duration = 1
    /\ Len(emits) = 2 /\ emits[1].to # emits[2].to
    /\ {emits[1].to, emits[2].to} \subseteq connected

\* The messages of the store other than those from senderId to receiverId.
OtherMessages(senderId, receiverId) ==
    {m \in [senderId : Users, receiverId : Users, isRead : BOOLEAN] :
        ~(m.senderId = senderId /\ m.receiverId = receiverId)}

\* counts maps each sender to the number of unread messages the store holds
\* from that sender to userId, and has no key for a sender without one.
ExactCounts(counts, userId) ==
    /\ DOMAIN counts = {s \in Users : CopiesIn(Message(s, userId, FALSE), dbMessages) > 0}
    /\ \A s \in DOMAIN counts : counts[s] = CopiesIn(Message(s, userId, FALSE), dbMessages)

\* C9: a message whose receiver has no presence binding when it is persisted
\* is stored once, with isRead = false, no receive_message is emitted and the
\* sender's session gets message_sent; and a get_unread_counts of user u emits
\* one unread_counts, to u's current binding, that maps each sender to exactly
\* the number of stored messages from that sender to u that are unread.
C9_OfflineMessageAndCounts ==
    [][/\ (/\ last'.h = "send_message" /\ last'.pc \in {"pushed", "stored"}
           /\ connectedUsers[last'.peer] = NoSocket)
            => /\ CopiesIn(Message(last'.user, last'.peer, FALSE), dbMessages')
                     = CopiesIn(Message(last'.user, last'.peer, FALSE), dbMessages) + 1
               /\ \A m \in BagToSet(dbMessages) \cup BagToSet(dbMessages') :
                     m # Message(last'.user, last'.peer, FALSE)
                        => CopiesIn(m, dbMessages') = CopiesIn(m, dbMessages)
               /\ "receive_message" \notin EventsOf(emits')
               /\ emits' = <<MsgEmit(last'.client, "message_sent", last'.user, last'.peer)>>
       /\ (last'.h = "get_unread_counts" /\ last'.pc = "sent" /\ last'.ok)
            => IF connectedUsers[last'.user] = NoSocket THEN emits' = <<>>
               ELSE /\ Len(emits') = 1
                    /\ emits'[1].ev = "unread_counts"
                    /\ emits'[1].to = connectedUsers[last'.user]
                    /\ ExactCounts(emits'[1].counts, last'.user)]_vars

\* C9 witness: B, who had no binding when A's message was stored, has attached
\* and asked for the unread counts, and got {A: 1}.
C9_Witness ==
    /\ last.h = "get_unread_counts" /\ last.pc = "sent"
    /\ sockUser[last.client] = "B"
    /\ dbMessages = SetToBag({Message("A", "B", FALSE)})
    /\ Len(emits) = 1
    /\ emits[1].to = connectedUsers["B"]
    /\ emits[1].counts = [s \in {"A"} |-> 1]

\* C10: when A's set_active_chat to peer B has marked k > 0 unread messages
\* from B to A read, none of them is unread any more, every other message keeps
\* its read flag, the unread_counts then emitted to A's session has no positive
\* count for B, and messages_marked_read is emitted to B's session if B has a
\* presence binding.
C10_SetActiveChatMarksRead ==
    [][/\ (last'.h = "set_active_chat" /\ last'.pc = "marked")
            => /\ CopiesIn(Message(last'.peer, last'.user, FALSE), dbMessages') = 0
               /\ CopiesIn(Message(last'.peer, last'.user, TRUE), dbMessages')
                     = CopiesIn(Message(last'.peer, last'.user, TRUE), dbMessages)
                       + CopiesIn(Message(last'.peer, last'.user, FALSE), dbMessages)
               /\ last'.peer # last'.user
                     => \A m \in OtherMessages(last'.peer, last'.user) :
                           CopiesIn(m, dbMessages') = CopiesIn(m, dbMessages)
       /\ (last'.h = "set_active_chat" /\ last'.pc = "notified" /\ last'.callId > 0)
            => /\ dbMessages' = dbMessages
               /\ connectedUsers[last'.user] # NoSocket
                     => /\ Len(emits') >= 1
                        /\ emits'[1].ev = "unread_counts"
                        /\ emits'[1].to = connectedUsers[last'.user]
                        /\ last'.peer \notin DOMAIN emits'[1].counts
               /\ connectedUsers[last'.peer] # NoSocket
                     => \E i \in 1..Len(emits') :
                           /\ emits'[i].ev = "messages_marked_read"
                           /\ emits'[i].to = connectedUsers[last'.peer]]_vars

\* C11: a call identity that was created and is no longer in the Call Table
\* (removed by reject_call, end_call or the grace-period teardown) is in the
\* table after no later step, whatever handlers interleave.
C11_NoResurrection ==
    [][\A cid \in DOMAIN dbCalls :
          ~HasIn(activeCalls, cid) => ~HasIn(activeCalls', cid)]_vars

\* The three notifications of the call state machine.
CallNotices == {"call_accepted", "call_rejected", "call_ended"}

\* C12: of the accept_call, reject_call and end_call handled at one time for
\* one call identity only the first mutates and notifies.  An operation that
\* comes back from its durable update after another operation removed the
\* entry it had checked, or after an accept_call replaced the entry a
\* reject_call or end_call had checked, is a no-op: it changes neither the Call
\* Table nor the durable record and emits no notification; and an end_call
\* delivers call_ended to no session that was delivered one for that call.
C12_GuardSerializes ==
    [][/\ \A t \in BagToSet(tasks) :
             (/\ t.h \in {"accept_call", "reject_call", "end_call"}
              /\ ~t.alias
              /\ t.h = "accept_call" => ~HasIn(activeCalls, t.callId)
              /\ last'.h = t.h /\ last'.pc \in {"accepted", "rejected", "ended"}
              /\ last'.client = t.client /\ last'.callId = t.callId
              /\ CopiesIn(t, tasks') < CopiesIn(t, tasks))
                => /\ activeCalls' = activeCalls
                   /\ dbCalls' = dbCalls
                   /\ EventsOf(emits') \cap CallNotices = {}
       /\ (last'.h = "end_call" /\ last'.pc = "ended")
             => \A i \in 1..Len(emits') :
                   emits'[i].to \in connected
                      => CopiesIn(<<last'.callId, emits'[i].to>>, endedSent) = 0]_vars

\* C13: accept_call takes effect only on a call whose status is initiated.  An
\* accept_call that comes back from its durable update when the Call Table
\* holds the call with status accepted (or holds it no more) leaves the Call
\* Table and the durable record as they are and emits no call_accepted.
C13_NoDoubleAccept ==
    [][(/\ last'.h = "accept_call" /\ last'.pc = "accepted"
        /\ ~(/\ HasIn(activeCalls, last'.callId)
             /\ GetIn(activeCalls, last'.callId).status = "initiated"))
         => /\ activeCalls' = activeCalls
            /\ dbCalls' = dbCalls
            /\ "call_accepted" \notin EventsOf(emits')]_vars

\* The moves a durable call record's status may make.
StatusMoves ==
    {<<"initiated", "accepted">>, <<"initiated", "rejected">>,
     <<"initiated", "ended">>, <<"accepted", "ended">>}

\* C14: the status of a durable call record changes only initiated -> accepted,
\* initiated -> rejected, initiated -> ended or accepted -> ended: it never
\* leaves rejected or ended and never goes accepted -> rejected.
C14_StatusMonotonic ==
    [][\A cid \in DOMAIN dbCalls :
          \/ dbCalls'[cid].status = dbCalls[cid].status
          \/ <<dbCalls[cid].status, dbCalls'[cid].status>> \in StatusMoves]_vars

\* C15: an accept_call takes effect only when its sender is the call's
\* receiver.  After an accept the receiver session recorded in the entry is a
\* session of the entry's receiverId, and an accept by a session of another
\* user leaves the entry as it was.
C15_AcceptOnlyByReceiver ==
    [][(last'.h = "accept_call" /\ last'.pc = "accepted")
         => LET cid == last'.callId IN
            /\ HasIn(activeCalls', cid)
                  => sockUser[GetIn(activeCalls', cid).receiverSocketId]
                        = GetIn(activeCalls', cid).receiverId
            /\ (/\ HasIn(activeCalls, cid)
                /\ sockUser[last'.client] # GetIn(activeCalls, cid).receiverId)
                  => GetIn(activeCalls', cid) = GetIn(activeCalls, cid)]_vars

\* C16: in every state, each Call Table entry records as caller session the
\* caller's presence binding and as receiver session the receiver's presence
\* binding, for each of the two that has a binding.
C16_SessionsInSync ==
    \A i \in 1..Len(activeCalls) :
        /\ connectedUsers[activeCalls[i].callerId] # NoSocket
              => activeCalls[i].callerSocketId = connectedUsers[activeCalls[i].callerId]
        /\ connectedUsers[activeCalls[i].receiverId] # NoSocket
              => activeCalls[i].receiverSocketId = connectedUsers[activeCalls[i].receiverId]

RelayEvents == {"webrtc_offer", "webrtc_answer", "webrtc_ice_candidate"}

\* The session an entry records for the participant other than the one whose
\* recorded session is socketId.
OtherRecorded(call, socketId) ==
    IF socketId = call.callerSocketId THEN call.receiverSocketId ELSE call.callerSocketId

\* C17: a relay event sent for a call in the Call Table by the session the
\* entry records for one participant (the two recorded sessions being
\* different) is forwarded only to the session recorded for the other
\* participant, never to the sending session or to any other; and an ICE
\* candidate whose target session is not connected produces no emit.
C17_RelayToOtherParticipant ==
    [][(/\ last'.h \in RelayEvents
        /\ HasIn(activeCalls, last'.callId)
        /\ GetIn(activeCalls, last'.callId).callerSocketId
              # GetIn(activeCalls, last'.callId).receiverSocketId
        /\ last'.client \in {GetIn(activeCalls, last'.callId).callerSocketId,
                             GetIn(activeCalls, last'.callId).receiverSocketId})
         => LET other == OtherRecorded(GetIn(activeCalls, last'.callId), last'.client) IN
            /\ \A i \in 1..Len(emits') :
                  emits'[i].ev \in RelayEvents
                     => emits'[i].to = other /\ emits'[i].to # last'.client
            /\ (last'.h = "webrtc_ice_candidate" /\ other \notin connected)
                  => emits' = <<>>]_vars

\* The session a webrtc_offer (the call's receiver) or a webrtc_answer (the
\* call's caller) is meant for, as the entry records it.
SignalTarget(call, ev) ==
    IF ev = "webrtc_offer" THEN call.receiverSocketId ELSE call.callerSocketId

\* C18: relay events are never queued.  A webrtc_offer or webrtc_answer whose
\* call is not in the Call Table, or whose target's recorded session is not
\* connected, emits exactly one event, a call_failed to the sending session;
\* an offer or answer is emitted only by the step that handles a relay event
\* of that name for that call, to a session connected at that moment, so
\* nothing is delivered later when the target reconnects; and no relay event
\* changes the Call Table.
C18_RelayNeverQueued ==
    [][/\ (/\ last'.h \in {"webrtc_offer", "webrtc_answer"}
           /\ \/ ~HasIn(activeCalls, last'.callId)
              \/ SignalTarget(GetIn(activeCalls, last'.callId), last'.h) \notin connected)
            => /\ Len(emits') = 1
               /\ emits'[1].ev = "call_failed"
               /\ emits'[1].to = last'.client
       /\ \A i \in 1..Len(emits') :
             emits'[i].ev \in {"webrtc_offer", "webrtc_answer"}
                => /\ last'.h = emits'[i].ev
                   /\ emits'[i].callId = last'.callId
                   /\ emits'[i].to \in connected
                   /\ events' = events + 1
       /\ last'.h \in RelayEvents
            => UNCHANGED <<activeCalls, tasks, dbCalls, connectedUsers, timers>>]_vars

\* C18 witness: an offer for a call in the table has just been answered with
\* call_failed because the receiver's recorded session had disconnected.
C18_Witness ==
    /\ last.h = "webrtc_offer" /\ last.pc = "unreachable"
    /\ HasIn(activeCalls, last.callId)
    /\ GetIn(activeCalls, last.callId).receiverSocketId \notin connected
    /\ GetIn(activeCalls, last.callId).receiverSocketId # NoSocket
    /\ GetIn(activeCalls, last.callId).callerSocketId = last.client
    /\ Len(emits) = 1 /\ emits[1].ev = "call_failed" /\ emits[1].to = last.client

\* The steps that end the handling of a call event sent by a client.
CallEventDone ==
    {<<"initiate_call", "offline">>, <<"initiate_call", "created">>,
     <<"accept_call", "absent">>, <<"accept_call", "accepted">>,
     <<"reject_call", "absent">>, <<"reject_call", "rejected">>,
     <<"end_call", "absent">>, <<"end_call", "ended">>}

\* C19: when an inbound event sent on a still connected session s of user u
\* has been processed, u's presence binding is s.
C19_EventRefreshesBinding ==
    [][(<<last'.h, last'.pc>> \in CallEventDone /\ last'.client \in connected')
         => connectedUsers'[sockUser[last'.client]] = last'.client]_vars

\* C20: when the durable create of initiate_call or the durable update of
\* accept_call, reject_call or end_call fails, the Call Table and the durable
\* records stay as they were, no handler is left behind, and the step emits
\* exactly one event: a call_failed to the acting session (so no incoming_call,
\* call_initiated, call_accepted, call_rejected or call_ended, and nothing to
\* another session).
C20_StoreFailure ==
    [][(/\ last'.h \in {"initiate_call", "accept_call", "reject_call", "end_call"}
        /\ ~last'.ok)
         => /\ activeCalls' = activeCalls
            /\ dbCalls' = dbCalls
            /\ endedSent' = endedSent
            /\ BagCardinality(tasks') = BagCardinality(tasks) - 1
            /\ Len(emits') = 1
            /\ emits'[1].ev = "call_failed"
            /\ emits'[1].to = last'.client]_vars

\* C20 witness: the update of an accept_call has just failed; the entry is in
\* the table with status initiated and the sender got call_failed.
C20_Witness ==
    /\ last.h = "accept_call" /\ ~last.ok
    /\ HasIn(activeCalls, last.callId)
    /\ GetIn(activeCalls, last.callId).status = "initiated"
    /\ dbCalls[last.callId].status = "initiated"
    /\ Len(emits) = 1 /\ emits[1].ev = "call_failed" /\ emits[1].to = last.client

\* C21: the active-chat entry decides the read flag of an incoming message.
\* Take a send_message of B to A that is persisted in the step right after
\* the one that received it, so that A's active-chat entry is the same when
\* the message is sent and when it is stored.  If the entry is B the message
\* is stored read and the number of unread messages from B to A is as before;
\* if it is absent or names another peer the message is stored unread.
C21_ActiveChatAutoRead ==
    [][(/\ last'.h = "send_message" /\ last'.pc \in {"pushed", "stored"}
        /\ last.h = "send_message" /\ last.pc = "start"
        /\ last.client = last'.client /\ last.peer = last'.peer)
         => LET isRead == userActiveChats[last'.peer] = last'.user
            IN  /\ CopiesIn(Message(last'.user, last'.peer, isRead), dbMessages')
                      = CopiesIn(Message(last'.user, last'.peer, isRead), dbMessages) + 1
                /\ CopiesIn(Message(last'.user, last'.peer, ~isRead), dbMessages')
                      = CopiesIn(Message(last'.user, last'.peer, ~isRead), dbMessages)]_vars

\* The user has attached, every session of the user is closed, and the grace
\* period of the session the user was bound to has expired without a reattach:
\* the teardown has removed the binding and nothing has set it since.
PermanentlyGone(u) ==
    /\ \E s \in 1..Len(sockUser) : sockUser[s] = u
    /\ \A s \in connected : sockUser[s] # u
    /\ connectedUsers[u] = NoSocket

\* C22: no call outlives a participant's permanent disconnect.  Whenever a
\* user's grace period has expired without reattachment and no handler is in
\* flight, the call table has no entry whose caller or receiver is that user.
C22_NoCallOutlivesUser ==
    \A u \in Users :
        (PermanentlyGone(u) /\ InFlight = 0) => ~Names(activeCalls, u)

\* C23: the call table and the durable records agree at quiescence.  When no
\* handler is in flight (and no durable write has failed: the store of this
\* specification never fails), every call in the call table has status
\* initiated or accepted and its durable record has the same status, and every
\* created call that is not in the call table has durable status rejected or
\* ended.
C23_TableAgreesWithStore ==
    InFlight = 0 =>
        /\ \A i \in 1..Len(activeCalls) :
              /\ activeCalls[i].status \in {"initiated", "accepted"}
              /\ activeCalls[i].status = dbCalls[activeCalls[i].id].status
        /\ \A cid \in DOMAIN dbCalls :
              ~HasIn(activeCalls, cid) => dbCalls[cid].status \in {"rejected", "ended"}

====
